---- MODULE Spec2Model ----
(***************************************************************************)
(* The Joule profiler (src/joule/profiler.py): the Modeller sampling       *)
(* thread running concurrently with the orchestration thread of main(),    *)
(* which drives the probes through the idle baseline and the stints and    *)
(* rewrites the descriptor after each of them.                             *)
(*                                                                         *)
(* Numbers that Python holds as floats are kept exact as pairs <<n, d>>    *)
(* (the rational n/d, in lowest terms); <<0, 0>> is NaN.                   *)
(***************************************************************************)
EXTENDS Integers, Sequences, FiniteSets, TLC

VARIABLES
    hwmode,      \* options.hwmode (channel and streams keep their defaults)
    input,       \* the descriptor as loaded by json.load, never changed
    data,        \* the descriptor in memory (main's `data`)
    disk,        \* the descriptor file
    probes,      \* main's `probes`: id -> the Probe object's session fields
    pc,          \* position of the orchestration thread
    i,           \* the loop index of main's stint loop (0-based)
    src, dst,    \* main's resolved probe ids of the current stint
    tps,         \* run_stint's tps, a rational
    err,         \* the uncaught exception that ended main, "" if none
    log,         \* history: every operation the orchestration thread issued
    npersist,    \* history: number of json.dump rewrites done
    spc,         \* position of the Modeller thread
    stop_event,  \* Modeller.stop_event
    readings,    \* content of the list bound to Modeller.readings
    cur,         \* identity of the list bound to Modeller.readings
    held,        \* identity of the list whose bound append the thread holds
    cycles,      \* history: fetch cycles completed since the last reset
    afterStop,   \* history: readings appended since stop_event was set
    fetches,     \* history: fetches started since the thread started
    snapshot,    \* the last result of get_readings()
    snapCycles,  \* history: value of cycles when snapshot was taken
    src_status,  \* process_stint's src_status, NoStatus outside it
    dst_status   \* process_stint's dst_status, NoStatus outside it

vars == <<hwmode, input, data, disk, probes, pc, i, src, dst, tps, err, log,
          npersist, spc, stop_event, readings, cur, held, cycles, afterStop,
          fetches, snapshot, snapCycles, src_status, dst_status>>

mainVars == <<hwmode, input, data, disk, probes, pc, i, src, dst, tps, err,
              log, npersist, snapshot, snapCycles, src_status, dst_status>>

-----------------------------------------------------------------------------
(* Bounds of the model *)

\* longest list of stints in a descriptor
MaxStints == 2

\* ConfigSpec: largest bitrate_mbps and duration_s of a stint
MaxBitrate == 6

MaxDuration == 3

\* StatsSpec: longest interval, in seconds, a rate tracker reports
MaxInterval == 2

\* AirSpec: longest frame, in bytes (three levels of splitting)
MaxLength == 6000

\* longest list of stints in a descriptor of FairSpec
MaxStintsFair == 1

\* the sampling loop starts at most this many fetches in a run
MaxFetches == 2

-----------------------------------------------------------------------------
(* Exact arithmetic *)

RECURSIVE GCD(_, _)
GCD(a, b) == IF b = 0 THEN a ELSE GCD(b, a % b)

Abs(x) == IF x < 0 THEN -x ELSE x

NaN == <<0, 0>>

\* the float n/d; a zero divisor is only ever reached as numpy's 0.0/0
Rat(n, d) ==
    IF d = 0 THEN NaN
    ELSE LET g == GCD(Abs(n), Abs(d))
             s == IF d < 0 THEN -1 ELSE 1
         IN  <<(s * n) \div g, (s * d) \div g>>

IsNaN(q) == q[2] = 0

\* math.ceil(float(n) / d) for n >= 0, d > 0
CeilDiv(n, d) == (n + d - 1) \div d

Last(s) == s[Len(s)]

IsPrefix(s, t) == Len(s) <= Len(t) /\ SubSeq(t, 1, Len(s)) = s

RECURSIVE SeqSum(_)
SeqSum(s) == IF s = <<>> THEN 0 ELSE Head(s) + SeqSum(Tail(s))

RECURSIVE SeqSumSq(_)
SeqSumSq(s) == IF s = <<>> THEN 0 ELSE Head(s) * Head(s) + SeqSumSq(Tail(s))

RECURSIVE Insert(_, _)
Insert(x, s) ==
    IF s = <<>> THEN <<x>>
    ELSE IF x <= Head(s) THEN <<x>> \o s
    ELSE <<Head(s)>> \o Insert(x, Tail(s))

RECURSIVE Sorted(_)
Sorted(s) == IF s = <<>> THEN <<>> ELSE Insert(Head(s), Sorted(Tail(s)))

-----------------------------------------------------------------------------
(* The airtime model *)

MODES == [m \in {<<"11a", "20", 1>>} |->
            [difs |-> 34, sifs |-> 16, slot |-> 9, min_cw |-> 15,
             symbol_duration |-> 4, bits_per_symbol |-> 216]]

DEFAULT_CHANNEL == "20"

DEFAULT_STREAMS == 1

MTU == 1472

\* mutant: the frame length is not converted from bytes to bits
RECURSIVE compute_tx_usec_bytes_mut(_, _, _)
compute_tx_usec_bytes_mut(mode, length, mtu) ==
    IF length > mtu
    THEN compute_tx_usec_bytes_mut(mode, length \div 2, mtu)
         + compute_tx_usec_bytes_mut(mode, length \div 2, mtu)
    ELSE LET m       == MODES[mode]
             len     == length + 8 + 20 + 28 + 8
             symbols == CeilDiv(len + 6, m.bits_per_symbol)
             dat     == 20 + symbols * m.symbol_duration
             ack     == 20 + m.symbol_duration
             backoff == m.slot * m.min_cw
         IN  m.difs + dat + m.sifs + ack + backoff

\* mutant: an odd length is split into its two unequal halves
RECURSIVE compute_tx_usec_split_mut(_, _, _)
compute_tx_usec_split_mut(mode, length, mtu) ==
    IF length > mtu
    THEN compute_tx_usec_split_mut(mode, length \div 2, mtu)
         + compute_tx_usec_split_mut(mode, length - length \div 2, mtu)
    ELSE LET m       == MODES[mode]
             len     == length + 8 + 20 + 28 + 8
             symbols == CeilDiv(len * 8 + 6, m.bits_per_symbol)
             dat     == 20 + symbols * m.symbol_duration
             ack     == 20 + m.symbol_duration
             backoff == m.slot * m.min_cw
         IN  m.difs + dat + m.sifs + ack + backoff

\* compute_tx_usec for a mode of the table (Python 2: length / 2 floors)
RECURSIVE compute_tx_usec(_, _, _)
compute_tx_usec(mode, length, mtu) ==
    IF length > mtu
    THEN compute_tx_usec(mode, length \div 2, mtu)
         + compute_tx_usec(mode, length \div 2, mtu)
    ELSE LET m       == MODES[mode]
             len     == length + 8 + 20 + 28 + 8
             symbols == CeilDiv(len * 8 + 6, m.bits_per_symbol)
             dat     == 20 + symbols * m.symbol_duration
             ack     == 20 + m.symbol_duration
             backoff == m.slot * m.min_cw
         IN  m.difs + dat + m.sifs + ack + backoff

\* MODES[mode] raises KeyError: every path of compute_tx_usec reaches it
ModeKeyError(mode) == mode \notin DOMAIN MODES

-----------------------------------------------------------------------------
(* The descriptor *)

\* ids of data['probes'], in the order the dict comprehension visits them
ProbeOrder == <<"a", "b">>

ProbeIds == {ProbeOrder[k] : k \in 1..Len(ProbeOrder)}

\* an id no entry of data['probes'] has
UnknownId == "x"

HwModes == {"11a", "11g"}

NoStats == <<>>

\* the stints a descriptor lists: odd places send from a to b, even places
\* from b to a with frames above the MTU
BaseStint(k) ==
    IF k % 2 = 1
    THEN [src |-> "a", dst |-> "b", packetsize_bytes |-> 100,
          bitrate_mbps |-> 1, duration_s |-> 1, stats |-> NoStats]
    ELSE [src |-> "b", dst |-> "a", packetsize_bytes |-> 1500,
          bitrate_mbps |-> 2, duration_s |-> 2, stats |-> NoStats]

\* n stints, of which stint number bad (if any) names an unknown probe as
\* its source or its destination
StintList(n, bad, field) ==
    [k \in 1..n |->
        IF k # bad THEN BaseStint(k)
        ELSE IF field = "src" THEN [BaseStint(k) EXCEPT !.src = UnknownId]
        ELSE [BaseStint(k) EXCEPT !.dst = UnknownId]]

StintLists ==
    {StintList(n, bad, f) : n \in 0..MaxStints, bad \in 0..MaxStints,
                            f \in {"src", "dst"}}

Descriptors ==
    { [idle |-> [duration_s |-> 1, stats |-> NoStats], stints |-> ss] :
        ss \in StintLists }

HasStats(e) == e.stats # NoStats

\* the descriptor file just after open(..., 'w'): no content
EmptyFile == [content |-> "none"]

\* values backend.fetch('power') returns
PowerValues == {3}

\* what a status() call reads back in a campaign run: counts and intervals
\* in seconds (StatsSpec goes through the statuses at large)
StatusPool ==
    { [client_count |-> 2, client_interval |-> 1,
       server_count |-> 3, server_interval |-> 1] }

NoStatus == <<>>

-----------------------------------------------------------------------------
(* History of the orchestration thread *)

Ev(who, ch, cmd, arg) == [who |-> who, ch |-> ch, cmd |-> cmd, arg |-> arg]

\* a remote call on a probe: write_handler / read_handler
IsRemote(e) == e.ch \in {"sender", "receiver"}

\* time.sleep(5) of main: the settle delay
SettleEv == Ev("main", "settle", "sleep", 5)

\* time.sleep(stint['duration_s']) of run_idle_stint and run_stint
WindowEv(seconds) == Ev("main", "window", "sleep", seconds)

PersistEv == Ev("main", "-", "persist", 0)

ResetEv == Ev("sampler", "-", "reset_readings", 0)

GetEv == Ev("sampler", "-", "get_readings", 0)

-----------------------------------------------------------------------------
(* Modeller: the sampling thread *)

\* mutant: the loop never looks at the stop flag
LoopContinues_mut(stop) == TRUE

\* the while condition of Modeller.run
LoopContinues(stop) == ~stop

\* list.append through the bound method taken from list `target`: the list
\* bound to Modeller.readings grows only when it is that list
AppendTo(target, value) ==
    IF target = cur THEN Append(readings, value) ELSE readings

\* while not self.stop_event.isSet(): then self.readings.append is evaluated,
\* before the argument: the thread holds the bound method of the current list
SamplerLoop ==
    /\ spc = "loop"
    /\ \/ /\ ~LoopContinues(stop_event)
          /\ spc' = "done"
          /\ held' = 0
          /\ UNCHANGED fetches
       \/ /\ LoopContinues(stop_event)
          /\ fetches < MaxFetches
          /\ spc' = "fetch"
          /\ held' = cur
          /\ fetches' = fetches + 1
    /\ UNCHANGED <<mainVars, stop_event, readings, cur, cycles, afterStop>>

\* backend.fetch returns v and the held append is called with it
FetchReturns ==
    /\ spc = "fetch"
    /\ \E v \in PowerValues :
          readings' = AppendTo(held, v)
    /\ spc' = "loop"
    /\ held' = 0
    /\ cycles' = cycles + 1
    /\ afterStop' = IF stop_event THEN afterStop + 1 ELSE afterStop
    /\ UNCHANGED <<mainVars, stop_event, cur, fetches>>

\* backend.fetch raises ValueError: control enters the except clause
FetchValueError ==
    /\ spc = "fetch"
    /\ spc' = "except"
    /\ held' = 0
    /\ UNCHANGED <<mainVars, stop_event, readings, cur, cycles, afterStop,
                   fetches>>

\* except ValueError: self.readings.append(0.0), on the list bound now
ExceptAppend ==
    /\ spc = "except"
    /\ readings' = AppendTo(cur, 0)
    /\ spc' = "loop"
    /\ cycles' = cycles + 1
    /\ afterStop' = IF stop_event THEN afterStop + 1 ELSE afterStop
    /\ UNCHANGED <<mainVars, stop_event, cur, held, fetches>>

\* backend.fetch raises anything else: no clause catches it, run() ends
FetchOtherError ==
    /\ spc = "fetch"
    /\ spc' = "dead"
    /\ held' = 0
    /\ UNCHANGED <<mainVars, stop_event, readings, cur, cycles, afterStop,
                   fetches>>

SamplerNext ==
    \/ SamplerLoop
    \/ FetchReturns
    \/ FetchValueError
    \/ ExceptAppend
    \/ FetchOtherError

-----------------------------------------------------------------------------
(* Probe *)

\* Probe.__init__, the fields set before its call of reset()
ProbeNew == [packet_rate |-> 10, packetsize_bytes |-> 64, limit |-> 0]

\* Probe.reset: the local fields it assigns
ProbeReset(p) == [p EXCEPT !.packet_rate = 10, !.packetsize_bytes = 64]

\* Probe.reset: its remote calls, in order
ResetCalls(id) ==
    << Ev(id, "sender", "src.active", 0),
       Ev(id, "sender", "src.reset", 0),
       Ev(id, "sender", "counter_client.reset", 0),
       Ev(id, "sender", "tr_client.reset", 0),
       Ev(id, "receiver", "counter_server.reset", 0),
       Ev(id, "receiver", "tr_server.reset", 0) >>

\* the status code a remote call replies with: handler[0]
Codes == {"200", "500"}

\* the replies to the six calls of one reset()
ResetReplies == [1..6 -> Codes]

AllOk == [k \in 1..6 |-> "200"]

\* logging.error of hlog, for the reply to call
ErrorLogged(call) == Ev(call.who, "log", "error", 0)

\* hlog(write_handler(...)): the call is made, a reply that is not "200" is
\* logged as an error, and the reply is handed back (no caller looks at it)
hlog(call, reply) ==
    IF reply = "200" THEN <<call>> ELSE <<call, ErrorLogged(call)>>

\* a run of hlog(write_handler(...)) statements, one after the other
RECURSIVE WriteTrace(_, _)
WriteTrace(calls, replies) ==
    IF calls = <<>> THEN <<>>
    ELSE hlog(Head(calls), Head(replies))
         \o WriteTrace(Tail(calls), Tail(replies))

\* the calls a reset would issue if it gave up at the first reply that is
\* not "200"
RECURSIVE UntilFailure(_, _)
UntilFailure(calls, replies) ==
    IF calls = <<>> THEN <<>>
    ELSE IF Head(replies) # "200" THEN hlog(Head(calls), Head(replies))
    ELSE <<Head(calls)>> \o UntilFailure(Tail(calls), Tail(replies))

\* Probe.configure_stint: the local fields it assigns
ProbeConfigure(p, stint) ==
    LET rate == stint.bitrate_mbps * 1000000
        size == stint.packetsize_bytes * 8
        pr   == rate \div size
    IN  [packet_rate |-> pr,
         packetsize_bytes |-> stint.packetsize_bytes,
         limit |-> pr * stint.duration_s]

\* mutant: the pushed packet rate is clamped to the rate cap
ConfigureCalls_mut(id, p, t) ==
    LET cap == t[1] \div t[2]
    IN  << Ev(id, "sender", "src.length", p.packetsize_bytes),
           Ev(id, "sender", "src.rate",
              IF p.packet_rate > cap THEN cap ELSE p.packet_rate),
           Ev(id, "sender", "src.limit", p.limit),
           Ev(id, "sender", "sha.rate", cap) >>

\* Probe.configure_stint: its remote calls, in order; %u truncates tps
ConfigureCalls(id, p, t) ==
    << Ev(id, "sender", "src.length", p.packetsize_bytes),
       Ev(id, "sender", "src.rate", p.packet_rate),
       Ev(id, "sender", "src.limit", p.limit),
       Ev(id, "sender", "sha.rate", t[1] \div t[2]) >>

StartCall(id) == Ev(id, "sender", "src.active", 1)

StopCall(id) == Ev(id, "sender", "src.active", 0)

\* Probe.status: its four reads, in order
StatusCalls(id) ==
    << Ev(id, "sender", "counter_client.count", 0),
       Ev(id, "sender", "tr_client.interval", 0),
       Ev(id, "receiver", "counter_server.count", 0),
       Ev(id, "receiver", "tr_server.interval", 0) >>

-----------------------------------------------------------------------------
(* Aggregation *)

\* np.median
Median(r) ==
    LET n == Len(r)
        s == Sorted(r)
    IN  IF n = 0 THEN NaN
        ELSE IF n % 2 = 1 THEN Rat(s[(n + 1) \div 2], 1)
        ELSE Rat(s[n \div 2] + s[n \div 2 + 1], 2)

\* np.mean
Mean(r) == Rat(SeqSum(r), Len(r))

\* 1.96 * (np.std(r) / np.sqrt(len(r))), kept as (ci / 1.96) squared, which
\* is the variance over n: (n * sum of squares - square of sum) / n^3
ConfInt(r) ==
    LET n == Len(r)
    IN  Rat(n * SeqSumSq(r) - SeqSum(r) * SeqSum(r), n * n * n)

process_readings(r) == [ci |-> ConfInt(r), median |-> Median(r), mean |-> Mean(r)]

\* mutant: goodput is computed from the source probe's own server counters
StintStats_gp_mut(power, size, ss, ds) ==
    LET tp_bps == IF ss.client_interval # 0
                  THEN Rat(ss.client_count * size * 8, ss.client_interval)
                  ELSE Rat(0, 1)
        gp_bps == IF ss.server_interval # 0
                  THEN Rat(ss.server_count * size * 8, ss.server_interval)
                  ELSE Rat(0, 1)
        losses == IF ss.client_count # 0
                  THEN Rat(ss.client_count - ds.server_count, ss.client_count)
                  ELSE Rat(0, 1)
    IN  [ci |-> power.ci, median |-> power.median, mean |-> power.mean,
         tp |-> tp_bps, gp |-> gp_bps, losses |-> losses]

\* mutant: a negative loss ratio is clamped to 0
StintStats_clamp_mut(power, size, ss, ds) ==
    LET tp_bps == IF ss.client_interval # 0
                  THEN Rat(ss.client_count * size * 8, ss.client_interval)
                  ELSE Rat(0, 1)
        gp_bps == IF ds.server_interval # 0
                  THEN Rat(ds.server_count * size * 8, ds.server_interval)
                  ELSE Rat(0, 1)
        losses == IF ss.client_count # 0 /\ ss.client_count > ds.server_count
                  THEN Rat(ss.client_count - ds.server_count, ss.client_count)
                  ELSE Rat(0, 1)
    IN  [ci |-> power.ci, median |-> power.median, mean |-> power.mean,
         tp |-> tp_bps, gp |-> gp_bps, losses |-> losses]

\* process_stint, lines 348-379, on the stint's packet size and the power
\* statistics already attached
StintStats(power, size, ss, ds) ==
    LET client_count    == ss.client_count
        server_count    == ds.server_count
        client_interval == ss.client_interval
        server_interval == ds.server_interval
        tp_bps == IF client_interval # 0
                  THEN Rat(client_count * size * 8, client_interval)
                  ELSE Rat(0, 1)
        gp_bps == IF server_interval # 0
                  THEN Rat(server_count * size * 8, server_interval)
                  ELSE Rat(0, 1)
        losses == IF client_count # 0
                  THEN Rat(client_count - server_count, client_count)
                  ELSE Rat(0, 1)
    IN  [ci |-> power.ci, median |-> power.median, mean |-> power.mean,
         tp |-> tp_bps, gp |-> gp_bps, losses |-> losses]

-----------------------------------------------------------------------------
(* The orchestration thread: main() *)

samplerVars == <<spc, stop_event, readings, cur, held, cycles, afterStop,
                 fetches>>

\* the stint of the current iteration: data['stints'][i]
Stint == data.stints[i + 1]

Mode == <<hwmode, DEFAULT_CHANNEL, DEFAULT_STREAMS>>

\* an exception nothing catches ends main()
Abort(e) ==
    /\ pc' = "aborted"
    /\ err' = e

\* modeller.start()
StartModeller ==
    /\ pc = "start"
    /\ pc' = "mkprobes"
    /\ spc' = "loop"
    /\ log' = Append(log, Ev("sampler", "-", "start", 0))
    /\ UNCHANGED <<hwmode, input, data, disk, probes, i, src, dst, tps, err,
                   npersist, snapshot, snapCycles, src_status, dst_status,
                   stop_event, readings, cur, held, cycles, afterStop,
                   fetches>>

\* probes = {x : Probe(data['probes'][x]) ...}: one Probe(), with its reset()
MakeProbe ==
    /\ pc = "mkprobes"
    /\ LET k  == Cardinality(DOMAIN probes) + 1
           id == ProbeOrder[k]
       IN  /\ probes' = [q \in DOMAIN probes \cup {id} |->
                            IF q = id THEN ProbeReset(ProbeNew) ELSE probes[q]]
           /\ log' = log \o ResetCalls(id)
           /\ pc' = IF k = Len(ProbeOrder) THEN "idle_reset" ELSE "mkprobes"
    /\ UNCHANGED <<hwmode, input, data, disk, i, src, dst, tps, err, npersist,
                   snapshot, snapCycles, src_status, dst_status, samplerVars>>

\* mutant: the reset leaves the list and its content in place
reset_readings_mut(next) ==
    /\ cycles' = 0
    /\ log' = Append(log, ResetEv)
    /\ pc' = next
    /\ UNCHANGED <<hwmode, input, data, disk, probes, i, src, dst, tps, err,
                   npersist, snapshot, snapCycles, src_status, dst_status,
                   spc, stop_event, readings, cur, held, afterStop, fetches>>

\* Modeller.reset_readings: self.readings = []
reset_readings(next) ==
    /\ readings' = <<>>
    /\ cur' = cur + 1
    /\ cycles' = 0
    /\ log' = Append(log, ResetEv)
    /\ pc' = next
    /\ UNCHANGED <<hwmode, input, data, disk, probes, i, src, dst, tps, err,
                   npersist, snapshot, snapCycles, src_status, dst_status,
                   spc, stop_event, held, afterStop, fetches>>

\* time.sleep, recorded as ev
sleep(ev, next) ==
    /\ log' = Append(log, ev)
    /\ pc' = next
    /\ UNCHANGED <<hwmode, input, data, disk, probes, i, src, dst, tps, err,
                   npersist, snapshot, snapCycles, src_status, dst_status,
                   samplerVars>>

\* Modeller.get_readings: self.readings[:]
get_readings == readings

\* the with statement: open(os.path.expanduser(options.joule), 'w')
open_w(next) ==
    /\ disk' = EmptyFile
    /\ pc' = next
    /\ UNCHANGED <<hwmode, input, data, probes, i, src, dst, tps, err, log,
                   npersist, snapshot, snapCycles, src_status, dst_status,
                   samplerVars>>

\* mutant: the descriptor as loaded is written, without the results
json_dump_mut(next) ==
    /\ disk' = input
    /\ npersist' = npersist + 1
    /\ log' = Append(log, PersistEv)
    /\ pc' = next
    /\ UNCHANGED <<hwmode, input, data, probes, i, src, dst, tps, err,
                   snapshot, snapCycles, src_status, dst_status, samplerVars>>

\* json.dump(data, data_file, ...), and the file is closed
json_dump(next) ==
    /\ disk' = data
    /\ npersist' = npersist + 1
    /\ log' = Append(log, PersistEv)
    /\ pc' = next
    /\ UNCHANGED <<hwmode, input, data, probes, i, src, dst, tps, err,
                   snapshot, snapCycles, src_status, dst_status, samplerVars>>

\* run_idle_stint, line 392
IdleReset == pc = "idle_reset" /\ reset_readings("idle_sleep")

\* run_idle_stint, line 393
IdleSleep == pc = "idle_sleep" /\ sleep(WindowEv(data.idle.duration_s), "idle_get")

\* run_idle_stint, lines 394-397
IdleProcess ==
    /\ pc = "idle_get"
    /\ snapshot' = get_readings
    /\ snapCycles' = cycles
    /\ data' = [data EXCEPT !.idle.stats = <<process_readings(get_readings)>>]
    /\ log' = Append(log, GetEv)
    /\ pc' = "idle_persist"
    /\ UNCHANGED <<hwmode, input, disk, probes, i, src, dst, tps, err,
                   npersist, src_status, dst_status, samplerVars>>

\* main, line 479
IdleOpen == pc = "idle_persist" /\ open_w("idle_dump")

\* main, lines 481-485
IdleDump == pc = "idle_dump" /\ json_dump("idle_settle")

\* main, line 488
IdleSettle == pc = "idle_settle" /\ sleep(SettleEv, "loop")

\* mutant: the destination is looked up only after the source was reset
LoopHead_mut ==
    /\ pc = "loop"
    /\ IF i >= Len(data.stints)
       THEN /\ pc' = "shutdown"
            /\ UNCHANGED <<src, dst, err, probes, log>>
       ELSE IF Stint.src \notin DOMAIN probes
       THEN /\ Abort("KeyError: probe")
            /\ UNCHANGED <<src, dst, probes, log>>
       ELSE IF Stint.dst \notin DOMAIN probes
       THEN /\ Abort("KeyError: probe")
            /\ probes' = [probes EXCEPT ![Stint.src] = ProbeReset(@)]
            /\ log' = log \o ResetCalls(Stint.src)
            /\ UNCHANGED <<src, dst>>
       ELSE /\ src' = Stint.src
            /\ dst' = Stint.dst
            /\ pc' = "run_stint"
            /\ UNCHANGED <<err, probes, log>>
    /\ UNCHANGED <<hwmode, input, data, disk, i, tps, npersist,
                   snapshot, snapCycles, src_status, dst_status, samplerVars>>

\* main, lines 493-498: the loop head and the two probes[...] lookups
LoopHead ==
    /\ pc = "loop"
    /\ IF i >= Len(data.stints)
       THEN /\ pc' = "shutdown"
            /\ UNCHANGED <<src, dst, err>>
       ELSE IF Stint.src \notin DOMAIN probes \/ Stint.dst \notin DOMAIN probes
       THEN /\ Abort("KeyError: probe")
            /\ UNCHANGED <<src, dst>>
       ELSE /\ src' = Stint.src
            /\ dst' = Stint.dst
            /\ pc' = "run_stint"
            /\ UNCHANGED err
    /\ UNCHANGED <<hwmode, input, data, disk, probes, i, tps, log, npersist,
                   snapshot, snapCycles, src_status, dst_status, samplerVars>>

\* run_stint, lines 313-318
ComputeTps ==
    /\ pc = "run_stint"
    /\ IF ModeKeyError(Mode)
       THEN /\ Abort("KeyError: mode")
            /\ UNCHANGED tps
       ELSE /\ tps' = Rat(1000000,
                          compute_tx_usec(Mode, Stint.packetsize_bytes, MTU))
            /\ pc' = "reset_src"
            /\ UNCHANGED err
    /\ UNCHANGED <<hwmode, input, data, disk, probes, i, src, dst, log,
                   npersist, snapshot, snapCycles, src_status, dst_status,
                   samplerVars>>

\* mutant: the reset gives up at the first reply that is not "200"
reset_mut(id, replies, next) ==
    /\ probes' = IF replies = AllOk
                 THEN [probes EXCEPT ![id] = ProbeReset(@)]
                 ELSE probes
    /\ log' = log \o UntilFailure(ResetCalls(id), replies)
    /\ pc' = next
    /\ UNCHANGED <<hwmode, input, data, disk, i, src, dst, tps, err, npersist,
                   snapshot, snapCycles, src_status, dst_status, samplerVars>>

\* Probe.reset on probe id, whose calls get these replies
reset(id, replies, next) ==
    /\ probes' = [probes EXCEPT ![id] = ProbeReset(@)]
    /\ log' = log \o WriteTrace(ResetCalls(id), replies)
    /\ pc' = next
    /\ UNCHANGED <<hwmode, input, data, disk, i, src, dst, tps, err, npersist,
                   snapshot, snapCycles, src_status, dst_status, samplerVars>>

\* run_stint, line 327
ResetSrc == pc = "reset_src" /\ reset(src, AllOk, "reset_dst")

\* run_stint, line 328
ResetDst == pc = "reset_dst" /\ reset(dst, AllOk, "configure")

\* run_stint, line 331: Probe.configure_stint
ConfigureSrc ==
    /\ pc = "configure"
    /\ LET p == ProbeConfigure(probes[src], Stint)
       IN  /\ probes' = [probes EXCEPT ![src] = p]
           /\ log' = log \o ConfigureCalls(src, p, tps)
    /\ pc' = "reset_readings"
    /\ UNCHANGED <<hwmode, input, data, disk, i, src, dst, tps, err, npersist,
                   snapshot, snapCycles, src_status, dst_status, samplerVars>>

\* run_stint, line 333
StintResetReadings == pc = "reset_readings" /\ reset_readings("start_stint")

\* a single write_handler call
write(call, next) ==
    /\ log' = Append(log, call)
    /\ pc' = next
    /\ UNCHANGED <<hwmode, input, data, disk, probes, i, src, dst, tps, err,
                   npersist, snapshot, snapCycles, src_status, dst_status,
                   samplerVars>>

\* mutant: the destination probe's sender is started
StartStint_mut == pc = "start_stint" /\ write(StartCall(dst), "sleep")

\* run_stint, line 335: Probe.start_stint
StartStint == pc = "start_stint" /\ write(StartCall(src), "sleep")

\* run_stint, line 336
StintSleep == pc = "sleep" /\ sleep(WindowEv(Stint.duration_s), "stop_stint")

\* mutant: the stop goes to the destination probe
StopStint_mut == pc = "stop_stint" /\ write(StopCall(dst), "process")

\* run_stint, line 337: Probe.stop_stint
StopStint == pc = "stop_stint" /\ write(StopCall(src), "process")

\* process_stint, line 343
ProcessReadings ==
    /\ pc = "process"
    /\ snapshot' = get_readings
    /\ snapCycles' = cycles
    /\ data' = [data EXCEPT
                  !.stints[i + 1].stats = <<process_readings(get_readings)>>]
    /\ log' = Append(log, GetEv)
    /\ pc' = "status_src"
    /\ UNCHANGED <<hwmode, input, disk, probes, i, src, dst, tps, err,
                   npersist, src_status, dst_status, samplerVars>>

\* a read whose reply carries no value that int()/float() accepts
Unparsed(e) == [e EXCEPT !.arg = -1]

\* mutant: the reads after the failing one are issued before the error
status_mut(id, st, failed) ==
    IF failed = 0
    THEN /\ log' = log \o StatusCalls(id)
         /\ UNCHANGED err
    ELSE /\ log' = log \o SubSeq(StatusCalls(id), 1, failed - 1)
                       \o <<Unparsed(StatusCalls(id)[failed])>>
                       \o SubSeq(StatusCalls(id), failed + 1, 4)
         /\ Abort("ValueError: status")

\* Probe.status on probe id: the reads are issued in order; read number
\* failed (1..4) yields no value that int()/float() accepts, which raises
\* before the next read, and 0 means that all four succeed with the values
\* of st
status(id, st, failed) ==
    IF failed = 0
    THEN /\ log' = log \o StatusCalls(id)
         /\ UNCHANGED err
    ELSE /\ log' = log \o SubSeq(StatusCalls(id), 1, failed - 1)
                       \o <<Unparsed(StatusCalls(id)[failed])>>
         /\ Abort("ValueError: status")

\* process_stint, line 345
StatusSrc ==
    /\ pc = "status_src"
    /\ \E st \in StatusPool, failed \in 0..4 :
          /\ status(src, st, failed)
          /\ IF failed = 0
             THEN src_status' = st /\ pc' = "status_dst"
             ELSE UNCHANGED src_status
    /\ UNCHANGED <<hwmode, input, data, disk, probes, i, src, dst, tps,
                   npersist, snapshot, snapCycles, dst_status, samplerVars>>

\* process_stint, line 346
StatusDst ==
    /\ pc = "status_dst"
    /\ \E st \in StatusPool, failed \in 0..4 :
          /\ status(dst, st, failed)
          /\ IF failed = 0
             THEN dst_status' = st /\ pc' = "compute"
             ELSE UNCHANGED dst_status
    /\ UNCHANGED <<hwmode, input, data, disk, probes, i, src, dst, tps,
                   npersist, snapshot, snapCycles, src_status, samplerVars>>

\* process_stint, lines 348-379, and its return
ComputeStats ==
    /\ pc = "compute"
    /\ data' = [data EXCEPT !.stints[i + 1].stats =
                  <<StintStats(Head(@), Stint.packetsize_bytes,
                               src_status, dst_status)>>]
    /\ src_status' = NoStatus
    /\ dst_status' = NoStatus
    /\ pc' = "persist"
    /\ UNCHANGED <<hwmode, input, disk, probes, i, src, dst, tps, err, log,
                   npersist, snapshot, snapCycles, samplerVars>>

\* main, line 513
StintOpen == pc = "persist" /\ open_w("dump")

\* main, lines 514-518
StintDump == pc = "dump" /\ json_dump("settle")

\* main, line 521, and the step of the for loop
StintSettle ==
    /\ pc = "settle"
    /\ log' = Append(log, SettleEv)
    /\ i' = i + 1
    /\ pc' = "loop"
    /\ UNCHANGED <<hwmode, input, data, disk, probes, src, dst, tps, err,
                   npersist, snapshot, snapCycles, src_status, dst_status,
                   samplerVars>>

\* main, line 524: Modeller.shutdown
Shutdown ==
    /\ pc = "shutdown"
    /\ stop_event' = TRUE
    /\ log' = Append(log, Ev("sampler", "-", "shutdown", 0))
    /\ pc' = "done"
    /\ UNCHANGED <<hwmode, input, data, disk, probes, i, src, dst, tps, err,
                   npersist, snapshot, snapCycles, src_status, dst_status,
                   spc, readings, cur, held, cycles, afterStop, fetches>>

MainNext ==
    \/ StartModeller
    \/ MakeProbe
    \/ IdleReset
    \/ IdleSleep
    \/ IdleProcess
    \/ IdleOpen
    \/ IdleDump
    \/ IdleSettle
    \/ LoopHead
    \/ ComputeTps
    \/ ResetSrc
    \/ ResetDst
    \/ ConfigureSrc
    \/ StintResetReadings
    \/ StartStint
    \/ StintSleep
    \/ StopStint
    \/ ProcessReadings
    \/ StatusSrc
    \/ StatusDst
    \/ ComputeStats
    \/ StintOpen
    \/ StintDump
    \/ StintSettle
    \/ Shutdown

-----------------------------------------------------------------------------
(* The program *)

\* the state after Modeller.__init__, with the descriptor loaded
Init ==
    /\ hwmode \in HwModes
    /\ input \in Descriptors
    /\ data = input
    /\ disk = input
    /\ probes = <<>>
    /\ pc = "start"
    /\ i = 0
    /\ src = ""
    /\ dst = ""
    /\ tps = Rat(0, 1)
    /\ err = ""
    /\ log = <<>>
    /\ npersist = 0
    /\ spc = "new"
    /\ stop_event = FALSE
    /\ readings = <<>>
    /\ cur = 1
    /\ held = 0
    /\ cycles = 0
    /\ afterStop = 0
    /\ fetches = 0
    /\ snapshot = <<>>
    /\ snapCycles = 0
    /\ src_status = NoStatus
    /\ dst_status = NoStatus

Next == MainNext \/ SamplerNext

Spec == Init /\ [][Next]_vars

\* the scheduler lets the sampling thread run again and again, and a fetch
\* in flight returns or raises
FairInit == Init /\ Len(input.stints) <= MaxStintsFair

FairSpec == FairInit /\ [][Next]_vars /\ WF_vars(SamplerNext)

-----------------------------------------------------------------------------
(* Probe.reset with every combination of replies *)

\* the session fields a probe can hold when a stint begins: fresh, or left
\* by the configure_stint of an earlier stint
ProbeStates ==
    {ProbeNew} \cup {ProbeConfigure(ProbeNew, BaseStint(k)) : k \in 1..2}

\* run_stint of the first stint, at its two resets (lines 327-328)
ResetInit ==
    /\ hwmode = "11a"
    /\ input = [idle |-> [duration_s |-> 1, stats |-> NoStats],
                stints |-> StintList(1, 0, "src")]
    /\ data = input
    /\ disk = input
    /\ probes \in [ProbeIds -> ProbeStates]
    /\ pc = "reset_src"
    /\ i = 0
    /\ src = "a"
    /\ dst = "b"
    /\ tps = Rat(1000000, compute_tx_usec(Mode, Stint.packetsize_bytes, MTU))
    /\ err = ""
    /\ log = <<>>
    /\ npersist = 0
    /\ spc = "loop"
    /\ stop_event = FALSE
    /\ readings = <<>>
    /\ cur = 1
    /\ held = 0
    /\ cycles = 0
    /\ afterStop = 0
    /\ fetches = 0
    /\ snapshot = <<>>
    /\ snapCycles = 0
    /\ src_status = NoStatus
    /\ dst_status = NoStatus

\* run_stint, line 327, with any replies
ResetSrcReplied ==
    pc = "reset_src" /\ \E rs \in ResetReplies : reset(src, rs, "reset_dst")

\* run_stint, line 328, with any replies
ResetDstReplied ==
    pc = "reset_dst" /\ \E rs \in ResetReplies : reset(dst, rs, "configure")

ResetNext == ResetSrcReplied \/ ResetDstReplied

ResetSpec == ResetInit /\ [][ResetNext]_vars

-----------------------------------------------------------------------------
(* run_stint up to configure_stint, on stints of many shapes *)

\* payload sizes: below and above the MTU, dividing the bitrate or not
PacketSizes == {64, 100, 1000, 1472, 1500}

\* a descriptor with this one stint from a to b
OneStint(size, bitrate, duration) ==
    [idle   |-> [duration_s |-> 1, stats |-> NoStats],
     stints |-> << [src |-> "a", dst |-> "b", packetsize_bytes |-> size,
                    bitrate_mbps |-> bitrate, duration_s |-> duration,
                    stats |-> NoStats] >>]

\* main at the call of run_stint for the first stint (line 500)
AtRunStint ==
    /\ data = input
    /\ disk = input
    /\ probes = [id \in ProbeIds |-> ProbeNew]
    /\ pc = "run_stint"
    /\ i = 0
    /\ src = "a"
    /\ dst = "b"
    /\ tps = Rat(0, 1)
    /\ err = ""
    /\ log = <<>>
    /\ npersist = 0
    /\ spc = "loop"
    /\ stop_event = FALSE
    /\ readings = <<>>
    /\ cur = 1
    /\ held = 0
    /\ cycles = 0
    /\ afterStop = 0
    /\ fetches = 0
    /\ snapshot = <<>>
    /\ snapCycles = 0
    /\ src_status = NoStatus
    /\ dst_status = NoStatus

ConfigInit ==
    /\ hwmode = "11a"
    /\ \E size \in PacketSizes, bitrate \in 1..MaxBitrate,
          duration \in 1..MaxDuration :
          input = OneStint(size, bitrate, duration)
    /\ AtRunStint

ConfigNext == ComputeTps \/ ResetSrc \/ ResetDst \/ ConfigureSrc

ConfigSpec == ConfigInit /\ [][ConfigNext]_vars

-----------------------------------------------------------------------------
(* run_stint's airtime estimate, on frames of every length *)

AirInit ==
    /\ hwmode = "11a"
    /\ \E length \in 0..MaxLength : input = OneStint(length, 1, 1)
    /\ AtRunStint

AirNext == ComputeTps

AirSpec == AirInit /\ [][AirNext]_vars

-----------------------------------------------------------------------------
(* process_stint from its statistics to the rewrite, on many statuses *)

\* packet counts a counter reports
Counts == {0, 90, 100}

\* what status() can return: all four fields of one probe
Statuses ==
    [client_count : Counts, client_interval : 0..MaxInterval,
     server_count : Counts, server_interval : 0..MaxInterval]

\* the power statistics of a window with one reading
OneReading == <<process_readings(<<3>>)>>

\* process_stint of the first stint after both status() calls (line 348)
StatsInit ==
    /\ hwmode = "11a"
    /\ \E size \in PacketSizes : input = OneStint(size, 1, 1)
    /\ data = [input EXCEPT !.idle.stats = OneReading,
                            !.stints[1].stats = OneReading]
    /\ disk = [input EXCEPT !.idle.stats = OneReading]
    /\ probes = [id \in ProbeIds |->
                    IF id = "a" THEN ProbeConfigure(ProbeNew, input.stints[1])
                    ELSE ProbeNew]
    /\ pc = "compute"
    /\ i = 0
    /\ src = "a"
    /\ dst = "b"
    /\ tps = Rat(1000000, compute_tx_usec(Mode, Stint.packetsize_bytes, MTU))
    /\ err = ""
    /\ log = <<>>
    /\ npersist = 1
    /\ spc = "loop"
    /\ stop_event = FALSE
    /\ readings = <<3>>
    /\ cur = 3
    /\ held = 0
    /\ cycles = 1
    /\ afterStop = 0
    /\ fetches = 1
    /\ snapshot = <<3>>
    /\ snapCycles = 1
    /\ src_status \in Statuses
    /\ dst_status \in Statuses

StatsNext == ComputeStats \/ StintOpen \/ StintDump

StatsSpec == StatsInit /\ [][StatsNext]_vars

-----------------------------------------------------------------------------
(* Claims *)

\* C1: accesses to the reading buffer are mutually exclusive: while the
\* sampling loop is inside its append (it has taken the buffer it appends to
\* and has not appended yet), no clear happens, so the buffer it appends to
\* is still the one bound to Modeller.readings.
C1_AppendExcludesClear == spc = "fetch" => held = cur

\* C2: the length of a get_readings() result is the number of fetch cycles
\* (successful or failed) completed since the most recent reset_readings().
C2_LengthIsCycles == Len(snapshot) = snapCycles

\* C3: no failure of a fetch ends the sampling loop: the loop is over only
\* after the stop flag was set, and never by an exception.
C3_LoopEndsOnlyOnStop == spc # "dead" /\ (spc = "done" => stop_event)

LoopOver == spc \in {"done", "dead"}

\* C4: shutdown() only sets the stop flag and returns without waiting for
\* the loop; at most one reading is appended after the flag was set; and
\* once the flag is set the sampling loop eventually ends.
C4_ShutdownCooperative ==
    /\ [][stop_event' # stop_event =>
            /\ pc = "shutdown" /\ pc' = "done" /\ stop_event'
            /\ UNCHANGED <<spc, readings, cur, held, cycles, data, disk>>]_vars
    /\ [](afterStop <= 1)
    /\ [](stop_event => <>LoopOver)

\* C4 witness: the flag was set during a fetch, the reading of that fetch was
\* appended, and the loop has ended at its next check
C4_Witness == stop_event /\ afterStop = 1 /\ spc = "done" /\ pc = "done"

\* the operations of the orchestration thread since the last settle delay
LastSettle ==
    LET S == {k \in 1..Len(log) : log[k] = SettleEv}
    IN  IF S = {} THEN 0 ELSE CHOOSE k \in S : \A m \in S : m <= k

SinceSettle == SubSeq(log, LastSettle + 1, Len(log))

\* what one iteration of the stint loop issues for stint st when every call
\* succeeds: run_stint, then process_stint, then the rewrite
IterationTrace(st) ==
    LET t == Rat(1000000, compute_tx_usec(Mode, st.packetsize_bytes, MTU))
        p == [packet_rate |-> (st.bitrate_mbps * 1000000)
                                \div (st.packetsize_bytes * 8),
              packetsize_bytes |-> st.packetsize_bytes,
              limit |-> ((st.bitrate_mbps * 1000000)
                            \div (st.packetsize_bytes * 8)) * st.duration_s]
    IN  ResetCalls(st.src) \o ResetCalls(st.dst)
        \o ConfigureCalls(st.src, p, t)
        \o << ResetEv, StartCall(st.src), WindowEv(st.duration_s),
              StopCall(st.src), GetEv >>
        \o StatusCalls(st.src) \o StatusCalls(st.dst)
        \o << PersistEv >>

InStint ==
    pc \in {"reset_src", "reset_dst", "configure", "reset_readings",
            "start_stint", "sleep", "stop_stint", "process", "status_src",
            "status_dst", "compute", "persist", "dump", "settle"}

\* C5: in every stint the orchestration thread issues, in this order and
\* with nothing else in between: reset of the source, reset of the
\* destination, configuration of the source, reset_readings, 'src.active
\* true' on the source, the wait, 'src.active false' on the source; the
\* status reads come only after that stop.
C5_StintOrder ==
    /\ InStint => IsPrefix(SinceSettle, IterationTrace(input.stints[i + 1]))
    /\ pc = "process" => Last(log) = StopCall(input.stints[i + 1].src)
    /\ pc = "start_stint" => Last(log) = ResetEv
    /\ pc \in {"loop", "run_stint"} /\ err = "" => SinceSettle = <<>>

\* C5 witness: the second stint has run up to its stop
C5_Witness == pc = "process" /\ i = 1 /\ Last(log) = StopCall("b")

\* a descriptor without the results attached to it
Strip(d) ==
    [idle   |-> [d.idle EXCEPT !.stats = NoStats],
     stints |-> [k \in DOMAIN d.stints |-> [d.stints[k] EXCEPT !.stats = NoStats]]]

IsStart(e) == e.cmd = "src.active" /\ e.arg = 1

Starts == SelectSeq(log, IsStart)

\* the file is being rewritten: opened for writing and not yet dumped
Rewriting == pc \in {"idle_dump", "dump"}

\* C6: stints run once each in input order and the descriptor is rewritten
\* after the idle baseline and after every stint: from the end of the
\* rewrite after stint k to the start of the next one the file has stats on
\* the idle entry and on stints 1..k and on no later stint, with the stints
\* in input order; after a complete run every entry has stats.
C6_PersistedPrefix ==
    /\ ~Rewriting =>
          /\ Strip(disk) = input
          /\ npersist = 0 => disk = input
          /\ npersist >= 1 =>
                /\ HasStats(disk.idle)
                /\ \A j \in 1..Len(disk.stints) :
                      HasStats(disk.stints[j]) <=> j <= npersist - 1
    /\ Len(Starts) \in {npersist - 1, npersist}
    /\ \A j \in 1..Len(Starts) : Starts[j] = StartCall(input.stints[j].src)
    /\ pc = "done" =>
          /\ npersist = Len(input.stints) + 1
          /\ Len(Starts) = Len(input.stints)

\* C6 witness: between the rewrites after the first and the second stint, the
\* second stint has results in memory that the file does not have yet
C6_Witness ==
    /\ ~Rewriting
    /\ Len(input.stints) = 2
    /\ npersist = 2
    /\ HasStats(disk.stints[1])
    /\ HasStats(data.stints[2])
    /\ ~HasStats(disk.stints[2])

\* C7: once the probes of a stint have been reset, the rate, size and limit
\* of each are at their initial defaults.
C7_ResetRestoresDefaults ==
    pc = "configure" => probes[src] = ProbeNew /\ probes[dst] = ProbeNew

PowerDefined(e) ==
    HasStats(e) =>
        LET st == Head(e.stats)
        IN  ~IsNaN(st.median) /\ ~IsNaN(st.mean) /\ ~IsNaN(st.ci)

\* C8: an empty power snapshot is a domain error: no entry, in memory or in
\* the file, ever carries statistics computed from an empty snapshot
\* (an undefined median, mean or ci).
C8_EmptySnapshotIsError ==
    \A d \in {data, disk} \ {EmptyFile} :
        /\ PowerDefined(d.idle)
        /\ \A j \in 1..Len(d.stints) : PowerDefined(d.stints[j])

\* C9: with a mode that is not in the table the campaign aborts, and when it
\* does the idle window has not been sampled, no probe has received a remote
\* call and nothing has been rewritten.
C9_UnknownModeAbortsFirst ==
    ModeKeyError(Mode) =>
        /\ pc # "done"
        /\ err = "KeyError: mode" =>
              /\ disk = input
              /\ npersist = 0
              /\ \A k \in 1..Len(log) :
                    ~IsRemote(log[k]) /\ log[k] \notin {ResetEv, GetEv}

\* C10: when stint i names a probe id that is not in the mapping, the
\* campaign aborts with nothing issued since the settle delay (no remote
\* call, no reset of the buffer for that stint), no result on stint i, and
\* the file as the last rewrite left it: idle and the stints before i with
\* stats, the others without.
C10_UnknownProbeAborts ==
    err = "KeyError: probe" =>
        /\ Last(log) = SettleEv
        /\ cur = i + 2
        /\ ~HasStats(data.stints[i + 1])
        /\ disk = data
        /\ npersist = i + 1
        /\ HasStats(disk.idle)
        /\ \A j \in 1..Len(disk.stints) : HasStats(disk.stints[j]) <=> j <= i

\* C10 witness: the second stint names an unknown probe after the first ran
C10_Witness == err = "KeyError: probe" /\ i = 1 /\ HasStats(disk.stints[1])

IsUnparsed(e) == e.arg = -1

\* the last n operations of the history
LogTail(n) == SubSeq(log, Len(log) - n + 1, Len(log))

\* what a status() call on probe id issues when its read number n fails
FailedStatus(id, n) ==
    SubSeq(StatusCalls(id), 1, n - 1) \o <<Unparsed(StatusCalls(id)[n])>>

\* C11: status() issues its four reads in order (client count, client
\* interval, server count, server interval) and yields a status only when
\* all four parsed; a read that does not parse is the last operation of the
\* campaign: the reads after it are not issued, no status is returned for
\* that call, main ends with the error and takes no further step, and the
\* file is as the previous rewrite left it, without stats on the stint
\* being processed.
C11_StatusErrorAborts ==
    /\ SelectSeq(log, IsUnparsed) # <<>> =>
          /\ IsUnparsed(Last(log))
          /\ Len(SelectSeq(log, IsUnparsed)) = 1
          /\ err = "ValueError: status"
    /\ pc = "status_dst" =>
          src_status # NoStatus /\ LogTail(4) = StatusCalls(src)
    /\ pc = "compute" =>
          dst_status # NoStatus /\ LogTail(4) = StatusCalls(dst)
    /\ err = "ValueError: status" =>
          /\ pc = "aborted"
          /\ ~ENABLED MainNext
          /\ dst_status = NoStatus
          /\ \E n \in 1..4 :
                \/ /\ src_status = NoStatus
                   /\ LogTail(n + 1) = <<GetEv>> \o FailedStatus(src, n)
                \/ /\ src_status # NoStatus
                   /\ LogTail(n + 5) = <<GetEv>> \o StatusCalls(src)
                                          \o FailedStatus(dst, n)
          /\ npersist = i + 1
          /\ HasStats(data.stints[i + 1])
          /\ disk = [data EXCEPT !.stints[i + 1].stats = NoStats]
          /\ \A j \in 1..Len(disk.stints) : HasStats(disk.stints[j]) <=> j <= i

\* C11 witness: in the second stint the third read of the destination's
\* status fails, after the source's status was read in full
C11_Witness ==
    /\ err = "ValueError: status"
    /\ i = 1
    /\ src_status # NoStatus
    /\ Last(log) = Unparsed(StatusCalls(dst)[3])

\* the remote calls of the history
RemoteCalls == SelectSeq(log, IsRemote)

IsErrorLogged(e) == e.ch = "log" /\ e.cmd = "error"

\* C12: whatever the replies, a reset issues the whole sequence in order
\* ('src.active false', 'src.reset', 'counter_client.reset',
\* 'tr_client.reset' on the sender channel, then 'counter_server.reset',
\* 'tr_server.reset' on the receiver channel), a reply that is not "200" is
\* only logged, and the probe ends with rate 10 and size 64.
C12_ResetBestEffort ==
    /\ pc = "reset_dst" =>
          /\ RemoteCalls = ResetCalls(src)
          /\ probes[src].packet_rate = 10
          /\ probes[src].packetsize_bytes = 64
    /\ pc = "configure" =>
          /\ RemoteCalls = ResetCalls(src) \o ResetCalls(dst)
          /\ \A id \in {src, dst} :
                probes[id].packet_rate = 10 /\ probes[id].packetsize_bytes = 64
    /\ \A k \in 1..Len(log) :
          IsErrorLogged(log[k]) => k > 1 /\ IsRemote(log[k - 1])

\* C12 witness: the first call of the source's reset was answered with an
\* error, both resets ran in full and the source, configured before, is
\* back at rate 10 and size 64
C12_Witness ==
    /\ pc = "configure"
    /\ Len(log) > 12
    /\ IsErrorLogged(log[2])
    /\ Len(RemoteCalls) = 12
    /\ probes[src].packet_rate = 10
    /\ probes[src].limit # 0

\* the stint configure_stint was called with, and what it pushed
Configured == pc = "reset_readings"

Pushed(k) == LogTail(4)[k]

TargetBits == Stint.bitrate_mbps * 1000000

FrameBits == Stint.packetsize_bytes * 8

\* configure_stint set the rate to floor(bits per second / bits per packet)
\* and the limit to rate times duration, and pushed size, rate and limit to
\* the source's sender channel in this order, the rate unclamped
PushedSizeRateLimit ==
    /\ \A k \in 1..4 : Pushed(k).who = src /\ Pushed(k).ch = "sender"
    /\ <<Pushed(1).cmd, Pushed(2).cmd, Pushed(3).cmd, Pushed(4).cmd>>
          = <<"src.length", "src.rate", "src.limit", "sha.rate">>
    /\ Pushed(1).arg = Stint.packetsize_bytes
    /\ Pushed(2).arg * FrameBits <= TargetBits
    /\ TargetBits < (Pushed(2).arg + 1) * FrameBits
    /\ Pushed(3).arg = Pushed(2).arg * Stint.duration_s
    /\ probes[src] = [packet_rate |-> Pushed(2).arg,
                      packetsize_bytes |-> Pushed(1).arg,
                      limit |-> Pushed(3).arg]

\* the cap handed to configure_stint is 1000000 / airtime of the stint's size
CapIsMaxSafeRate ==
    tps[1] * compute_tx_usec(Mode, Stint.packetsize_bytes, MTU)
        = 1000000 * tps[2]

\* C13: configure sets rate = floor(bitrate in bits/s / (size * 8)) and
\* limit = rate * duration and pushes to the source's sender channel, in
\* order, the size, that rate, that limit and the rate cap maxSafeRateHz
\* (each as a whole number: of the cap, which is 1000000 / airtime, its
\* integer part); the rate is never clamped to the cap.
C13_PushesUnclamped ==
    Configured =>
        /\ PushedSizeRateLimit
        /\ CapIsMaxSafeRate
        /\ Pushed(4).arg * tps[2] <= tps[1]
        /\ tps[1] < (Pushed(4).arg + 1) * tps[2]

\* C13 witness: a rate that is not a whole quotient and exceeds the cap was
\* pushed as it is, for a stint of more than one second
C13_Witness ==
    /\ Configured
    /\ Pushed(2).arg * FrameBits < TargetBits
    /\ Pushed(2).arg > Pushed(4).arg
    /\ Stint.duration_s > 1

\* the step in which process_stint computes and attaches its results
Computes == pc = "compute" /\ pc' = "persist"

\* the results attached to the stint by that step
Attached == Head(data'.stints[i + 1].stats)

\* the float q is n / d, for d # 0
IsQuotient(q, n, d) == ~IsNaN(q) /\ q[1] * d = n * q[2]

\* C14: with non-negative counters and intervals, throughput is the source's
\* client count * packet size * 8 / the source's client interval, goodput
\* is the destination's server count * packet size * 8 / the destination's
\* server interval, each is 0 when its interval is exactly 0, and no error
\* is raised.
C14_ThroughputGoodput ==
    [][Computes =>
          /\ err' = ""
          /\ IF src_status.client_interval = 0
             THEN Attached.tp = Rat(0, 1)
             ELSE IsQuotient(Attached.tp,
                             src_status.client_count
                                 * Stint.packetsize_bytes * 8,
                             src_status.client_interval)
          /\ IF dst_status.server_interval = 0
             THEN Attached.gp = Rat(0, 1)
             ELSE IsQuotient(Attached.gp,
                             dst_status.server_count
                                 * Stint.packetsize_bytes * 8,
                             dst_status.server_interval)]_vars

\* the results of the first stint as the file has them
Persisted == Head(disk.stints[1].stats)

\* C14 witness: the source sent packets over an interval of exactly 0
\* (throughput 0 with a loss ratio that is not 0) and the destination
\* received 90 packets of 64 bytes in 1 s
C14_Witness ==
    /\ pc = "settle"
    /\ Stint.packetsize_bytes = 64
    /\ Persisted.tp = Rat(0, 1)
    /\ Persisted.losses # Rat(0, 1)
    /\ Persisted.gp = Rat(46080, 1)

\* C15: the loss ratio is (source client count - destination server count)
\* / client count, 0 when the client count is 0, never clamped and never an
\* error: it is negative when the server count is larger, and the file gets
\* the value that was attached.
C15_LossRatioUnclamped ==
    /\ [][Computes =>
             /\ err' = ""
             /\ IF src_status.client_count = 0
                THEN Attached.losses = Rat(0, 1)
                ELSE IsQuotient(Attached.losses,
                                src_status.client_count
                                    - dst_status.server_count,
                                src_status.client_count)
             /\ src_status.client_count # 0
                /\ dst_status.server_count > src_status.client_count
                   => Attached.losses[1] < 0]_vars
    /\ [](pc = "settle" => disk = data /\ err = "")

\* C15 witness: 90 packets sent, 100 received: -1/9 is in the file
C15_Witness == pc = "settle" /\ Persisted.losses = <<-1, 9>>

\* run_stint has computed tx_usecs_udp and tps for the stint
Estimated == pc = "reset_src"

Length == Stint.packetsize_bytes

\* tx_usecs_udp, from tps = 1000000 / tx_usecs_udp in lowest terms
Airtime == tps[2] * (1000000 \div tps[1])

\* the bytes one OFDM symbol carries
SymbolBytes == MODES[Mode].bits_per_symbol \div 8

\* C16 as stated: for lengths L1 < L2 that are both at most 1472 bytes the
\* estimate of L1 is strictly smaller than the estimate of L2.
C16_StrictlyIncreasing ==
    Estimated /\ Length <= MTU =>
        \A L1 \in 0..(Length - 1) : compute_tx_usec(Mode, L1, MTU) < Airtime

\* C16 amended: for lengths L1 < L2 that are both at most 1472 bytes the
\* estimate of L1 is at most the estimate of L2, and strictly smaller when
\* L2 - L1 is at least the 27 bytes of one symbol.
C16_NonDecreasing ==
    Estimated /\ Length <= MTU =>
        \A L1 \in 0..(Length - 1) :
            /\ compute_tx_usec(Mode, L1, MTU) <= Airtime
            /\ Length - L1 >= SymbolBytes
                  => compute_tx_usec(Mode, L1, MTU) < Airtime

\* C16 witness: 1472 bytes take as long as 1471 and longer than 1445
C16_Witness ==
    /\ Estimated
    /\ Length = MTU
    /\ compute_tx_usec(Mode, Length - 1, MTU) = Airtime
    /\ compute_tx_usec(Mode, Length - SymbolBytes, MTU) < Airtime

\* the number of times length is halved until it is at most mtu
RECURSIVE Halvings(_, _)
Halvings(length, mtu) ==
    IF length > mtu THEN 1 + Halvings(length \div 2, mtu) ELSE 0

RECURSIVE Pow2(_)
Pow2(n) == IF n = 0 THEN 1 ELSE 2 * Pow2(n - 1)

\* C17: for a length above 1472 bytes the split ends with equal pieces of at
\* most 1472 bytes (the length halved, rounding down, until it fits), the
\* estimate is the number of pieces times the estimate of one piece, and
\* it is twice the estimate of floor(length / 2).
C17_SplitDoubles ==
    Estimated /\ Length > MTU =>
        LET n     == Halvings(Length, MTU)
            piece == Length \div Pow2(n)
        IN  /\ piece <= MTU
            /\ 2 * piece + 1 > MTU
            /\ Airtime = Pow2(n) * compute_tx_usec(Mode, piece, MTU)
            /\ Airtime = 2 * compute_tx_usec(Mode, Length \div 2, MTU)

\* C17 witness: an odd length that is split three times
C17_Witness ==
    /\ Estimated
    /\ Length % 2 = 1
    /\ Halvings(Length, MTU) = 3
    /\ Airtime = 8 * compute_tx_usec(Mode, Length \div 8, MTU)

ShutdownEv == Ev("sampler", "-", "shutdown", 0)

\* the sampler has been started and shutdown() has not been called
Sampling == spc # "new" /\ ~stop_event

\* the campaign has ended: main returned or an exception ended it
Ended == pc \in {"done", "aborted"}

\* C18: the campaign goes Idle -> Baseline -> RunningStints[i] -> Done: the
\* sampler is started before the baseline window and is running during the
\* baseline and every stint; shutdown() is called exactly once, and only
\* after the result of the last stint was persisted; and whenever the
\* campaign has ended, normally or by a fatal abort, the sampler has been
\* shut down.
C18_CampaignLifecycle ==
    /\ pc = "start" => spc = "new" /\ i = 0 /\ npersist = 0
    /\ pc \notin {"start", "shutdown", "done", "aborted"} => Sampling
    /\ Len(SelectSeq(log, LAMBDA e : e = ShutdownEv)) <= 1
    /\ stop_event =>
          /\ Last(log) = ShutdownEv
          /\ i = Len(input.stints)
          /\ npersist = Len(input.stints) + 1
          /\ disk = data
          /\ \A j \in 1..Len(disk.stints) : HasStats(disk.stints[j])
    /\ Ended => stop_event

IsGetOrReset(e) == e \in {GetEv, ResetEv}

\* get_readings() was called in the current window: no reset since
SnapshotCurrent ==
    LET w == SelectSeq(log, IsGetOrReset)
    IN  w # <<>> /\ Last(w) = GetEv

\* C19: no stale samples. A reset leaves the buffer empty; until the next
\* reset the buffer only grows, at its end, by the one reading of a fetch
\* cycle that completes in that step, so the buffer never holds more
\* readings than cycles completed since the reset; a snapshot is the
\* buffer at the time of get_readings(), hence holds only readings of its
\* own window, in arrival order, and it stays a prefix of the buffer (and of
\* any later snapshot) for the rest of the window.
C19_NoStaleSamples ==
    /\ [][/\ cur' # cur => readings' = <<>> /\ cycles' = 0
          /\ cur' = cur /\ readings' # readings =>
                /\ Len(readings') = Len(readings) + 1
                /\ IsPrefix(readings, readings')
                /\ cycles' = cycles + 1
          /\ snapshot' # snapshot \/ snapCycles' # snapCycles =>
                /\ snapshot' = readings
                /\ snapCycles' = cycles
                /\ cur' = cur]_vars
    /\ [](Len(readings) <= cycles)
    /\ [](Len(snapshot) <= snapCycles)
    /\ [](SnapshotCurrent => IsPrefix(snapshot, readings))

\* C19 witness: the idle window had a reading, and the snapshot of the
\* first stint holds only the one reading of its own window, to which the
\* buffer has not added since
C19_Witness ==
    /\ pc = "status_src"
    /\ i = 0
    /\ ~IsNaN(Head(data.idle.stats).mean)
    /\ snapshot = <<3>>
    /\ snapCycles = 1
    /\ readings = snapshot

IsActiveWrite(e) == e.cmd = "src.active"

\* the 'src.active' writes of the history
ActiveWrites == SelectSeq(log, IsActiveWrite)

\* the probes whose sender was started and has not been stopped since: the
\* last 'src.active' write to the probe is a start
ActiveSenders ==
    LET w == ActiveWrites
    IN  {id \in ProbeIds :
            \E k \in 1..Len(w) :
                /\ w[k] = StartCall(id)
                /\ \A m \in (k + 1)..Len(w) : w[m].who # id}

\* C20: at most one probe's sender is started and not yet stopped, it is
\* the source probe of the current stint, and this is so only between the
\* start and the stop of run_stint: never in the idle baseline window, in a
\* settle delay, while results are aggregated or while the descriptor is
\* rewritten; every start ever issued went to the source of its stint.
C20_OneActiveSender ==
    LET active == ActiveSenders
    IN  /\ Cardinality(active) <= 1
        /\ active # {} =>
              /\ pc \in {"sleep", "stop_stint"}
              /\ active = {input.stints[i + 1].src}
              /\ src = input.stints[i + 1].src
        /\ pc \in {"sleep", "stop_stint"} => active # {}
        /\ Len(Starts) <= i + 1
        /\ \A j \in 1..Len(Starts) :
              Starts[j] = StartCall(input.stints[j].src)

\* C20 witness: in the second stint b sends, and a, the sender of the first
\* stint, was stopped
C20_Witness ==
    /\ pc = "stop_stint"
    /\ i = 1
    /\ ActiveSenders = {"b"}
    /\ StartCall("a") \in {ActiveWrites[k] : k \in 1..Len(ActiveWrites)}

====
